---- MODULE Spec2Model ----
(***************************************************************************)
(* Instruction assembly and account resolution of metaboss_lib.            *)
(*                                                                         *)
(* A behaviour is one call of a top-level operation.  The operations share *)
(* no state (every call builds its own Asset), so one call per behaviour   *)
(* covers every call.  A call is split at its network round trips: the     *)
(* assembly (address parsing, largest-holder query, metadata fetch,        *)
(* account resolution) is one action, the blockhash fetch one action and   *)
(* every submission attempt one action.  The answers of the chain-access   *)
(* collaborator are inputs of the action that asks for them.               *)
(*                                                                         *)
(* A Pubkey is a non-empty sequence of strings.  A program-derived address *)
(* is the symbolic image of its seed bytes: find_program_address hashes    *)
(* the concatenation of the seeds, so the model concatenates them.         *)
(***************************************************************************)
EXTENDS Naturals, Sequences, FiniteSets, TLC

VARIABLES pc, op, args, fetched, largest, calls, ix, instructions, result, attempts

vars == <<pc, op, args, fetched, largest, calls, ix, instructions, result, attempts>>

\* ------------------------------------------------------------------ bounds
MaxHolders == 2
MaxAmount == 2
MaxDecimals == 10
MaxCalls == 3
MaxLen == 3
MaxCreators == 2

\* --------------------------------------------------------------- addresses
None == <<>>

ID == <<"metaqbxxUerdq28cj1RbAWkYQm3ybzjb6a8bt518x1s">>
SPL_TOKEN_PROGRAM_ID == <<"TokenkegQfeZyiNwAJbNbGKPFXCWuBvf9Ss623VQ5DA">>
AUTH_RULES_PROGRAM_ID == <<"auth9SigNpDKz4sJJ1DfCTuZrZNSAgh9sFD3rboVmgg">>
SYSTEM_PROGRAM_ID == <<"11111111111111111111111111111111">>
SYSVAR_ID == <<"Sysvar1111111111111111111111111111111111111">>
SYSVAR_INSTRUCTIONS_ID == <<"Sysvar1nstructions1111111111111111111111111">>

METADATA_PREFIX == <<"metadata">>
EDITION_PREFIX == <<"edition">>
TOKEN_RECORD_SEED == <<"token_record">>

\* The text of an address parameter that is not a base58 public key.
BadAddress == <<"not-a-pubkey">>

TokenNames == <<"token1", "token2", "token3", "token4">>
TokenKey(i) == <<TokenNames[i]>>
TokenKeys == {TokenKey(i) : i \in 1..MaxHolders}

MintKey == <<"mint">>
CollectionKey == <<"collectionMint">>
RuleSetKey == <<"ruleSet">>
AuthorityKey == <<"authority">>
PayerKey == <<"payer">>
DelegateKey == <<"delegate">>
OwnerKey == <<"owner">>
UpdateAuthorityKey == <<"updateAuthority">>
DelegateRecordKey == <<"callerDelegateRecord">>
TokenRecordKey == <<"callerTokenRecord">>

RECURSIVE Concat(_)
Concat(seeds) == IF seeds = <<>> THEN <<>> ELSE Head(seeds) \o Concat(Tail(seeds))

\* ToPubkey::to_pubkey for a text parameter
to_pubkey(p) ==
    IF p = BadAddress
    THEN [ok |-> FALSE, err |-> "PubkeyParseFailed", val |-> None]
    ELSE [ok |-> TRUE, err |-> "", val |-> p]

unwrap_or(o, d) == IF o = None THEN d ELSE o

\* ------------------------------------------------------- address deriver
derive_generic_pda(seeds, program_id) == <<"pda">> \o program_id \o Concat(seeds)

derive_metadata_pda(pubkey) ==
    <<"pda">> \o ID \o (METADATA_PREFIX \o ID \o pubkey)

\* Mutant: the edition seeds lack the "edition" suffix
derive_edition_pda_NoSuffix(pubkey) ==
    <<"pda">> \o ID \o (METADATA_PREFIX \o ID \o pubkey)

derive_edition_pda(pubkey) ==
    <<"pda">> \o ID \o (METADATA_PREFIX \o ID \o pubkey \o EDITION_PREFIX)

derive_token_record_pda(mint, token) ==
    derive_generic_pda(<<METADATA_PREFIX, ID, mint, TOKEN_RECORD_SEED, token>>, ID)

TokenRecord_find_pda(mint, token) ==
    derive_generic_pda(<<METADATA_PREFIX, ID, mint, TOKEN_RECORD_SEED, token>>, ID)

MetadataDelegateRoles ==
    {"AuthorityItem", "Collection", "Use", "Data", "ProgrammableConfig",
     "DataItem", "CollectionItem", "ProgrammableConfigItem"}

MetadataDelegateRoleSeed(role) ==
    CASE role = "AuthorityItem" -> <<"authority_item_delegate">>
      [] role = "Collection" -> <<"collection_delegate">>
      [] role = "Use" -> <<"use_delegate">>
      [] role = "Data" -> <<"data_delegate">>
      [] role = "ProgrammableConfig" -> <<"programmable_config_delegate">>
      [] role = "DataItem" -> <<"data_item_delegate">>
      [] role = "CollectionItem" -> <<"collection_item_delegate">>
      [] role = "ProgrammableConfigItem" -> <<"prog_config_item_delegate">>

MetadataDelegateRecord_find_pda(mint, role_seed, update_authority, delegate) ==
    derive_generic_pda(
        <<METADATA_PREFIX, ID, mint, role_seed, update_authority, delegate>>, ID)

\* ------------------------------------------------------- metadata record
TokenStandards ==
    {"NonFungible", "FungibleAsset", "Fungible", "NonFungibleEdition",
     "ProgrammableNonFungible"}

\* Option<TokenStandard>: "None" is the absent standard
OptTokenStandards == TokenStandards \cup {"None"}

\* Option<Collection>
Collections ==
    {[is_some |-> FALSE, key |-> None, verified |-> FALSE]} \cup
    {[is_some |-> TRUE, key |-> CollectionKey, verified |-> v] : v \in BOOLEAN}

\* Option<ProgrammableConfig::V1 { rule_set: Option<Pubkey> }>
ProgrammableConfigs ==
    {[is_some |-> FALSE, rule_set |-> None]} \cup
    {[is_some |-> TRUE, rule_set |-> r] : r \in {None, RuleSetKey}}

Metadatas ==
    [token_standard : OptTokenStandards,
     collection : Collections,
     programmable_config : ProgrammableConfigs,
     update_authority : {UpdateAuthorityKey}]

NoMetadata ==
    [token_standard |-> "None",
     collection |-> [is_some |-> FALSE, key |-> None, verified |-> FALSE],
     programmable_config |-> [is_some |-> FALSE, rule_set |-> None],
     update_authority |-> None]

\* Answers of RpcClient::get_account_data for the metadata address: a client
\* error of some kind, or the account bytes, which deserialize or do not.
AccountAnswers(mds) ==
    {[status |-> s, valid |-> FALSE, md |-> NoMetadata] :
        s \in {"AccountNotFound", "Transport"}} \cup
    {[status |-> "Ok", valid |-> FALSE, md |-> NoMetadata]} \cup
    {[status |-> "Ok", valid |-> TRUE, md |-> m] : m \in mds}

AccountResponses == AccountAnswers(Metadatas)

\* Only burn reads the collection of the snapshot; the other assemblers are
\* given snapshots without one.
AccountResponsesNoCollection ==
    AccountAnswers({m \in Metadatas : ~m.collection.is_some})

NotFetched == [status |-> "NotFetched", valid |-> FALSE, md |-> NoMetadata]

\* decode_metadata
decode_metadata(account) ==
    IF account.status # "Ok"
    THEN [ok |-> FALSE, err |-> "ClientError", kind |-> account.status, val |-> NoMetadata]
    ELSE IF ~account.valid
    THEN [ok |-> FALSE, err |-> "DecodeMetadataFailed", kind |-> "", val |-> NoMetadata]
    ELSE [ok |-> TRUE, err |-> "", kind |-> "", val |-> account.md]

\* -------------------------------------------------- token-account locator
RECURSIVE ToDecimal(_)
\* u64 Display: the decimal digits of n, most significant first
ToDecimal(n) == IF n < 10 THEN <<n>> ELSE Append(ToDecimal(n \div 10), n % 10)

RECURSIVE parse_u64(_)
\* str::parse::<u64> on a string of decimal digits
parse_u64(s) ==
    IF Len(s) = 1 THEN s[1]
    ELSE 10 * parse_u64(SubSeq(s, 1, Len(s) - 1)) + s[Len(s)]

AmountStrings == {ToDecimal(n) : n \in 0..MaxAmount} \cup {ToDecimal(10)}

TokenAccounts == [address : TokenKeys, amount : AmountStrings]

\* getTokenLargestAccounts lists distinct accounts, largest balance first
HolderLists ==
    {l \in UNION {[1..n -> TokenAccounts] : n \in 0..MaxHolders} :
        /\ \A i, j \in 1..Len(l) : i # j => l[i].address # l[j].address
        /\ \A i \in 1..Len(l) : i < Len(l) =>
              parse_u64(l[i].amount) >= parse_u64(l[i+1].amount)}

LargestResponses ==
    {[status |-> "Transport", value |-> <<>>]} \cup
    {[status |-> "Ok", value |-> l] : l \in HolderLists}

NotQueried == [status |-> "NotQueried", value |-> <<>>]

RECURSIVE SelectOne_AtLeastOne(_)
\* Mutant: the filter keeps every account with a balance of at least one
SelectOne_AtLeastOne(l) ==
    IF l = <<>> THEN <<>>
    ELSE IF parse_u64(Head(l).amount) >= 1
         THEN <<Head(l)>> \o SelectOne_AtLeastOne(Tail(l))
         ELSE SelectOne_AtLeastOne(Tail(l))

RECURSIVE SelectOne(_)
\* .filter(|account| account.amount.parse::<u64>().unwrap() == 1)
SelectOne(l) ==
    IF l = <<>> THEN <<>>
    ELSE IF parse_u64(Head(l).amount) = 1
         THEN <<Head(l)>> \o SelectOne(Tail(l))
         ELSE SelectOne(Tail(l))

get_nft_token_account(response) ==
    IF response.status # "Ok"
    THEN [ok |-> FALSE, err |-> "ClientError", val |-> None]
    ELSE LET token_accounts == SelectOne(response.value)
         IN IF Len(token_accounts) > 1
            THEN [ok |-> FALSE, err |-> "MoreThanOneTokenAccount", val |-> None]
            ELSE IF token_accounts = <<>>
            THEN [ok |-> FALSE, err |-> "ZeroTokenAccounts", val |-> None]
            ELSE LET token_pubkey == to_pubkey(token_accounts[1].address)
                 IN IF ~token_pubkey.ok
                    THEN [ok |-> FALSE, err |-> "ParsePubkeyError", val |-> None]
                    ELSE [ok |-> TRUE, err |-> "", val |-> token_pubkey.val]

\* ------------------------------------------------------------ outcomes
NoIx == [kind |-> "none"]

Pending == [state |-> "pending", err |-> "", kind |-> "", val |-> None]
Err(e, k) == [state |-> "err", err |-> e, kind |-> k, val |-> None]
Ok(v) == [state |-> "ok", err |-> "", kind |-> "", val |-> v]
Signature == <<"signature">>

\* What an assembler leaves behind when it returns early with an error
Failed(e, k, account, holders, log) ==
    [res |-> Err(e, k), ix |-> NoIx, fetched |-> account, largest |-> holders,
     calls |-> log]

Built(i, account, holders, log) ==
    [res |-> Pending, ix |-> i, fetched |-> account, largest |-> holders,
     calls |-> log]

IsNonFungibleOrAbsent(token_standard) ==
    token_standard \in {"NonFungible", "NonFungibleEdition", "ProgrammableNonFungible", "None"}

\* ------------------------------------------------------------ Asset, Nft
Asset_new(mint) ==
    [mint |-> mint, metadata |-> derive_metadata_pda(mint), edition |-> None]

\* Mutant: a second add_edition takes the edition away again
add_edition_Toggle(asset) ==
    [asset EXCEPT !.edition =
        IF asset.edition = None THEN derive_edition_pda(asset.mint) ELSE None]

add_edition(asset) == [asset EXCEPT !.edition = derive_edition_pda(asset.mint)]

get_token_record(asset, token) == derive_token_record_pda(asset.mint, token)

\* The handle of the transfer assembler: its edition is an address from
\* construction on (TransferBuilder::edition takes a Pubkey).
Nft_new(mint) ==
    [mint |-> mint, metadata |-> derive_metadata_pda(mint),
     edition |-> derive_edition_pda(mint)]

Nft_get_token_record(nft, token) == derive_token_record_pda(nft.mint, token)

\* ---------------------------------------------------------------- transfer
\* Mutant: the destination token record is derived from the source token
transfer_programmable_accounts_SourceTwice(nft, md, source_token, destination_token) ==
    IF md.token_standard = "ProgrammableNonFungible"
    THEN [owner_token_record |-> Nft_get_token_record(nft, source_token),
          destination_token_record |-> Nft_get_token_record(nft, source_token),
          authorization_rules |->
              IF md.programmable_config.is_some /\ md.programmable_config.rule_set # None
              THEN md.programmable_config.rule_set
              ELSE None]
    ELSE [owner_token_record |-> None,
          destination_token_record |-> None,
          authorization_rules |-> None]

\* transfer/mod.rs 84-103: the accounts that depend on the metadata snapshot
transfer_programmable_accounts(nft, md, source_token, destination_token) ==
    IF md.token_standard = "ProgrammableNonFungible"
    THEN [owner_token_record |-> Nft_get_token_record(nft, source_token),
          destination_token_record |-> Nft_get_token_record(nft, destination_token),
          authorization_rules |->
              IF md.programmable_config.is_some /\ md.programmable_config.rule_set # None
              THEN md.programmable_config.rule_set
              ELSE None]
    ELSE [owner_token_record |-> None,
          destination_token_record |-> None,
          authorization_rules |-> None]

transfer_asset_v1(a, account) ==
    LET mint == to_pubkey(a.mint)
        source_owner == to_pubkey(a.source_owner)
        source_token == to_pubkey(a.source_token)
        destination_owner == to_pubkey(a.destination_owner)
        destination_token == to_pubkey(a.destination_token)
    IN IF ~mint.ok \/ ~source_owner.ok \/ ~source_token.ok
          \/ ~destination_owner.ok \/ ~destination_token.ok
       THEN Failed("PubkeyParseFailed", "", NotFetched, NotQueried, <<>>)
       ELSE
       LET nft == Nft_new(mint.val)
           payer == unwrap_or(a.payer, a.authority)
           md == decode_metadata(account)
       IN IF ~md.ok
          THEN Failed(md.err, md.kind, account, NotQueried, <<"getAccountInfo">>)
          ELSE
          LET p == transfer_programmable_accounts(
                       nft, md.val, source_token.val, destination_token.val)
          IN Built([kind |-> "transfer",
                    payer |-> payer,
                    authority |-> a.authority,
                    token |-> source_token.val,
                    token_owner |-> source_owner.val,
                    destination |-> destination_token.val,
                    destination_owner |-> destination_owner.val,
                    mint |-> nft.mint,
                    metadata |-> nft.metadata,
                    edition |-> nft.edition,
                    owner_token_record |-> p.owner_token_record,
                    destination_token_record |-> p.destination_token_record,
                    authorization_rules |-> p.authorization_rules,
                    amount |-> a.amount],
                   account, NotQueried, <<"getAccountInfo">>)

\* -------------------------------------------------------------------- burn
\* Mutant: the absent standard is not taken for a non-fungible
burn_edition_accounts_NoAbsent(asset, md, mint, token) ==
    IF md.token_standard \in {"NonFungible", "NonFungibleEdition", "ProgrammableNonFungible"}
    THEN [edition |-> add_edition(asset).edition,
          token_record |->
              IF md.token_standard = "ProgrammableNonFungible"
              THEN derive_token_record_pda(mint, token)
              ELSE None]
    ELSE [edition |-> None, token_record |-> None]

\* Mutant: every asset that gets an edition gets a token record
burn_edition_accounts_RecordForAll(asset, md, mint, token) ==
    IF IsNonFungibleOrAbsent(md.token_standard)
    THEN [edition |-> add_edition(asset).edition,
          token_record |-> derive_token_record_pda(mint, token)]
    ELSE [edition |-> None, token_record |-> None]

\* burn/mod.rs 67-84: edition and token record
burn_edition_accounts(asset, md, mint, token) ==
    IF IsNonFungibleOrAbsent(md.token_standard)
    THEN [edition |-> add_edition(asset).edition,
          token_record |->
              IF md.token_standard = "ProgrammableNonFungible"
              THEN derive_token_record_pda(mint, token)
              ELSE None]
    ELSE [edition |-> None, token_record |-> None]

\* Mutant: the verified flag of the collection is not looked at
burn_collection_metadata_AnyCollection(md) ==
    IF md.collection.is_some
    THEN derive_metadata_pda(md.collection.key)
    ELSE None

\* burn/mod.rs 86-92: the parent of a verified collection member
burn_collection_metadata(md) ==
    IF md.collection.is_some /\ md.collection.verified
    THEN derive_metadata_pda(md.collection.key)
    ELSE None

burn_asset_v1(a, account) ==
    LET mint == to_pubkey(a.mint)
    IN IF ~mint.ok
       THEN Failed("PubkeyParseFailed", "", NotFetched, NotQueried, <<>>)
       ELSE
       LET asset == Asset_new(mint.val)
           md == decode_metadata(account)
       IN IF ~md.ok
          THEN Failed(md.err, md.kind, account, NotQueried, <<"getAccountInfo">>)
          ELSE
          LET token == to_pubkey(a.token)
          IN IF ~token.ok
             THEN Failed("PubkeyParseFailed", "", account, NotQueried, <<"getAccountInfo">>)
             ELSE
             LET e == burn_edition_accounts(asset, md.val, mint.val, token.val)
             IN Built([kind |-> "burn",
                       authority |-> a.authority,
                       mint |-> asset.mint,
                       metadata |-> asset.metadata,
                       token |-> token.val,
                       amount |-> a.amount,
                       system_program |-> SYSTEM_PROGRAM_ID,
                       sysvar_instructions |-> SYSVAR_ID,
                       spl_token_program |-> SPL_TOKEN_PROGRAM_ID,
                       edition |-> e.edition,
                       token_record |-> e.token_record,
                       collection_metadata |-> burn_collection_metadata(md.val)],
                      account, NotQueried, <<"getAccountInfo">>)

\* ---------------------------------------------------------------- delegate
DELEGATE_IX == 44
REVOKE_IX == 45

TokenDelegateVariants ==
    {"SaleV1", "TransferV1", "UtilityV1", "StakingV1", "PrintDelegateV1",
     "LockedTransferV1"}

MetadataDelegateVariants ==
    {"AuthorityItemV1", "DataV1", "DataItemV1", "CollectionV1", "CollectionItemV1",
     "ProgrammableConfigV1", "ProgrammableConfigItemV1"}

DelegateVariants == TokenDelegateVariants \cup MetadataDelegateVariants \cup {"StandardV1"}

RevokeVariants == DelegateVariants \cup {"MigrationV1"}

\* delegate/mod.rs 122-127
delegate_auth_rules(md) ==
    IF md.programmable_config.is_some
    THEN [authorization_rules |-> md.programmable_config.rule_set,
          authorization_rules_program |-> AUTH_RULES_PROGRAM_ID]
    ELSE [authorization_rules |-> None, authorization_rules_program |-> None]

\* The role named in the arm of the match that handles the variant
delegate_role(variant) ==
    CASE variant = "AuthorityItemV1" -> "AuthorityItem"
      [] variant = "DataV1" -> "Data"
      [] variant = "DataItemV1" -> "DataItem"
      [] variant = "CollectionV1" -> "Collection"
      [] variant = "CollectionItemV1" -> "CollectionItem"
      [] variant = "ProgrammableConfigV1" -> "ProgrammableConfig"
      [] variant = "ProgrammableConfigItemV1" -> "ProgrammableConfigItem"

\* Mutant: the token record is derived from the delegate, not the token account
delegate_records_FromDelegate(variant, mint, token, payer, delegate) ==
    IF variant \in TokenDelegateVariants
    THEN [delegate_record |-> None,
          token_record |-> TokenRecord_find_pda(mint, delegate)]
    ELSE IF variant \in MetadataDelegateVariants
    THEN [delegate_record |->
              MetadataDelegateRecord_find_pda(
                  mint, MetadataDelegateRoleSeed(delegate_role(variant)), payer, delegate),
          token_record |-> None]
    ELSE [delegate_record |-> None, token_record |-> None]

\* Mutant: the DataItemV1 arm names the Data role
delegate_records_DataRole(variant, mint, token, payer, delegate) ==
    IF variant \in TokenDelegateVariants
    THEN [delegate_record |-> None,
          token_record |-> TokenRecord_find_pda(mint, token)]
    ELSE IF variant \in MetadataDelegateVariants
    THEN [delegate_record |->
              MetadataDelegateRecord_find_pda(
                  mint,
                  MetadataDelegateRoleSeed(
                      IF variant = "DataItemV1" THEN "Data" ELSE delegate_role(variant)),
                  payer, delegate),
          token_record |-> None]
    ELSE [delegate_record |-> None, token_record |-> None]

\* delegate/mod.rs 144-220: match delegate_args
delegate_records(variant, mint, token, payer, delegate) ==
    IF variant \in TokenDelegateVariants
    THEN [delegate_record |-> None,
          token_record |-> TokenRecord_find_pda(mint, token)]
    ELSE IF variant \in MetadataDelegateVariants
    THEN [delegate_record |->
              MetadataDelegateRecord_find_pda(
                  mint, MetadataDelegateRoleSeed(delegate_role(variant)), payer, delegate),
          token_record |-> None]
    ELSE [delegate_record |-> None, token_record |-> None]

\* delegate/mod.rs 225-235
delegate_master_edition(asset, md) ==
    IF IsNonFungibleOrAbsent(md.token_standard)
    THEN add_edition(asset).edition
    ELSE None

new(pubkey, is_signer) == [pubkey |-> pubkey, is_signer |-> is_signer, is_writable |-> TRUE]

new_readonly(pubkey, is_signer) ==
    [pubkey |-> pubkey, is_signer |-> is_signer, is_writable |-> FALSE]

\* Mutant: an absent delegate record leaves a writable placeholder
delegate_ix_WritablePlaceholder(accounts, delegate_args) ==
    [kind |-> "delegate",
     program_id |-> ID,
     accounts |->
        << new(unwrap_or(accounts.delegate_record, ID), FALSE),
           new_readonly(accounts.delegate, FALSE),
           new(accounts.metadata, FALSE),
           new_readonly(unwrap_or(accounts.master_edition, ID), FALSE),
           IF accounts.token_record # None
           THEN new(accounts.token_record, FALSE)
           ELSE new_readonly(ID, FALSE),
           new_readonly(accounts.mint, FALSE),
           IF accounts.token # None
           THEN new(accounts.token, FALSE)
           ELSE new_readonly(ID, FALSE),
           new_readonly(accounts.authority, TRUE),
           new(accounts.payer, TRUE),
           new_readonly(SYSTEM_PROGRAM_ID, FALSE),
           new_readonly(SYSVAR_INSTRUCTIONS_ID, FALSE),
           new_readonly(unwrap_or(accounts.spl_token_program, ID), FALSE),
           new_readonly(unwrap_or(accounts.authorization_rules_program, ID), FALSE),
           new_readonly(unwrap_or(accounts.authorization_rules, ID), FALSE) >>,
     data |-> [discriminator |-> DELEGATE_IX, args |-> delegate_args]]

delegate_ix(accounts, delegate_args) ==
    [kind |-> "delegate",
     program_id |-> ID,
     accounts |->
        << IF accounts.delegate_record # None
           THEN new(accounts.delegate_record, FALSE)
           ELSE new_readonly(ID, FALSE),
           new_readonly(accounts.delegate, FALSE),
           new(accounts.metadata, FALSE),
           new_readonly(unwrap_or(accounts.master_edition, ID), FALSE),
           IF accounts.token_record # None
           THEN new(accounts.token_record, FALSE)
           ELSE new_readonly(ID, FALSE),
           new_readonly(accounts.mint, FALSE),
           IF accounts.token # None
           THEN new(accounts.token, FALSE)
           ELSE new_readonly(ID, FALSE),
           new_readonly(accounts.authority, TRUE),
           new(accounts.payer, TRUE),
           new_readonly(SYSTEM_PROGRAM_ID, FALSE),
           new_readonly(SYSVAR_INSTRUCTIONS_ID, FALSE),
           new_readonly(unwrap_or(accounts.spl_token_program, ID), FALSE),
           new_readonly(unwrap_or(accounts.authorization_rules_program, ID), FALSE),
           new_readonly(unwrap_or(accounts.authorization_rules, ID), FALSE) >>,
     data |-> [discriminator |-> DELEGATE_IX, args |-> delegate_args]]

delegate_asset_v1_ix(a, holders, account) ==
    LET payer == unwrap_or(a.payer, a.authority)
        mint == to_pubkey(a.mint)
    IN IF ~mint.ok
       THEN Failed("PubkeyParseFailed", "", NotFetched, NotQueried, <<>>)
       ELSE
       LET asset == Asset_new(mint.val)
           supplied == a.token # None
           token == IF supplied THEN to_pubkey(a.token) ELSE get_nft_token_account(holders)
           seen == IF supplied THEN NotQueried ELSE holders
           log1 == IF supplied THEN <<>> ELSE <<"getTokenLargestAccounts">>
       IN IF ~token.ok
          THEN Failed(token.err, "", NotFetched, seen, log1)
          ELSE
          LET md == decode_metadata(account)
              log2 == Append(log1, "getAccountInfo")
          IN IF ~md.ok
             THEN Failed(md.err, md.kind, account, seen, log2)
             ELSE
             LET delegate == to_pubkey(a.delegate)
             IN IF ~delegate.ok
                THEN Failed("PubkeyParseFailed", "", account, seen, log2)
                ELSE
                LET rules == delegate_auth_rules(md.val)
                    recs == delegate_records(a.delegate_args.variant, mint.val,
                                             token.val, payer, delegate.val)
                    delegate_accounts ==
                        [payer |-> payer,
                         authority |-> a.authority,
                         metadata |-> asset.metadata,
                         mint |-> mint.val,
                         delegate |-> delegate.val,
                         delegate_record |-> recs.delegate_record,
                         token |-> None,
                         master_edition |-> delegate_master_edition(asset, md.val),
                         token_record |-> recs.token_record,
                         spl_token_program |-> SPL_TOKEN_PROGRAM_ID,
                         authorization_rules |-> rules.authorization_rules,
                         authorization_rules_program |-> rules.authorization_rules_program]
                IN Built(delegate_ix(delegate_accounts, a.delegate_args),
                         account, seen, log2)

\* ------------------------------------------------------------------ revoke
\* revoke/mod.rs 122-127
revoke_auth_rules(md) ==
    IF md.programmable_config.is_some
    THEN [authorization_rules |-> md.programmable_config.rule_set,
          authorization_rules_program |-> AUTH_RULES_PROGRAM_ID]
    ELSE [authorization_rules |-> None, authorization_rules_program |-> None]

\* revoke/mod.rs 144-219: match revoke_args
revoke_records(variant, mint, token, payer, delegate) ==
    IF variant \in TokenDelegateVariants \cup {"MigrationV1"}
    THEN [delegate_record |-> None,
          token_record |-> TokenRecord_find_pda(mint, token)]
    ELSE IF variant \in MetadataDelegateVariants
    THEN [delegate_record |->
              MetadataDelegateRecord_find_pda(
                  mint, MetadataDelegateRoleSeed(delegate_role(variant)), payer, delegate),
          token_record |-> None]
    ELSE [delegate_record |-> None, token_record |-> None]

\* revoke/mod.rs 224-234
revoke_master_edition(asset, md) ==
    IF IsNonFungibleOrAbsent(md.token_standard)
    THEN add_edition(asset).edition
    ELSE None

revoke_ix(accounts, revoke_args) ==
    [kind |-> "revoke",
     program_id |-> ID,
     accounts |->
        << IF accounts.delegate_record # None
           THEN new(accounts.delegate_record, FALSE)
           ELSE new_readonly(ID, FALSE),
           new_readonly(accounts.delegate, FALSE),
           new(accounts.metadata, FALSE),
           new_readonly(unwrap_or(accounts.master_edition, ID), FALSE),
           IF accounts.token_record # None
           THEN new(accounts.token_record, FALSE)
           ELSE new_readonly(ID, FALSE),
           new_readonly(accounts.mint, FALSE),
           IF accounts.token # None
           THEN new(accounts.token, FALSE)
           ELSE new_readonly(ID, FALSE),
           new_readonly(accounts.authority, TRUE),
           new(accounts.payer, TRUE),
           new_readonly(SYSTEM_PROGRAM_ID, FALSE),
           new_readonly(SYSVAR_INSTRUCTIONS_ID, FALSE),
           new_readonly(unwrap_or(accounts.spl_token_program, ID), FALSE),
           new_readonly(unwrap_or(accounts.authorization_rules_program, ID), FALSE),
           new_readonly(unwrap_or(accounts.authorization_rules, ID), FALSE) >>,
     data |-> [discriminator |-> REVOKE_IX, args |-> revoke_args]]

revoke_asset_v1_ix(a, holders, account) ==
    LET payer == unwrap_or(a.payer, a.authority)
        mint == to_pubkey(a.mint)
    IN IF ~mint.ok
       THEN Failed("PubkeyParseFailed", "", NotFetched, NotQueried, <<>>)
       ELSE
       LET asset == Asset_new(mint.val)
           supplied == a.token # None
           token == IF supplied THEN to_pubkey(a.token) ELSE get_nft_token_account(holders)
           seen == IF supplied THEN NotQueried ELSE holders
           log1 == IF supplied THEN <<>> ELSE <<"getTokenLargestAccounts">>
       IN IF ~token.ok
          THEN Failed(token.err, "", NotFetched, seen, log1)
          ELSE
          LET md == decode_metadata(account)
              log2 == Append(log1, "getAccountInfo")
          IN IF ~md.ok
             THEN Failed(md.err, md.kind, account, seen, log2)
             ELSE
             LET delegate == to_pubkey(a.delegate)
             IN IF ~delegate.ok
                THEN Failed("PubkeyParseFailed", "", account, seen, log2)
                ELSE
                LET rules == revoke_auth_rules(md.val)
                    recs == revoke_records(a.revoke_args.variant, mint.val,
                                           token.val, payer, delegate.val)
                    revoke_accounts ==
                        [payer |-> payer,
                         authority |-> a.authority,
                         metadata |-> asset.metadata,
                         mint |-> mint.val,
                         delegate |-> delegate.val,
                         delegate_record |-> recs.delegate_record,
                         token |-> None,
                         master_edition |-> revoke_master_edition(asset, md.val),
                         token_record |-> recs.token_record,
                         spl_token_program |-> SPL_TOKEN_PROGRAM_ID,
                         authorization_rules |-> rules.authorization_rules,
                         authorization_rules_program |-> rules.authorization_rules_program]
                IN Built(revoke_ix(revoke_accounts, a.revoke_args),
                         account, seen, log2)

\* ------------------------------------------------------------------ update
UPDATE_COMPUTE_UNITS == 50000

Priorities == {"None", "Low", "Medium", "High", "Max"}

\* Mutant: High is priced as Medium
micro_lamports_HighAsMedium(priority) ==
    CASE priority = "None" -> 20
      [] priority = "Low" -> 20000
      [] priority = "Medium" -> 200000
      [] priority = "High" -> 200000
      [] priority = "Max" -> 2000000

\* data.rs 151-158 (Priority), update/mod.rs 140-146 (the match)
micro_lamports(priority) ==
    CASE priority = "None" -> 20
      [] priority = "Low" -> 20000
      [] priority = "Medium" -> 200000
      [] priority = "High" -> 1000000
      [] priority = "Max" -> 2000000

\* Option<P>::map(to_pubkey).transpose()
to_pubkey_opt(p) ==
    IF p = None THEN [ok |-> TRUE, err |-> "", val |-> None] ELSE to_pubkey(p)

\* update/mod.rs 186-192: the token of the instruction.  The locator is asked
\* (needs_query) only in the first branch.
update_token(md, token, holders) ==
    IF md.token_standard = "ProgrammableNonFungible" /\ token = None
    THEN [queried |-> TRUE, res |-> get_nft_token_account(holders)]
    ELSE [queried |-> FALSE, res |-> [ok |-> TRUE, err |-> "", val |-> None]]

\* update/mod.rs 197-206
update_edition(asset, md) ==
    IF IsNonFungibleOrAbsent(md.token_standard) THEN add_edition(asset) ELSE asset

\* update/mod.rs 208-215
update_auth_rules(md) ==
    IF md.programmable_config.is_some /\ md.programmable_config.rule_set # None
    THEN [authorization_rules |-> md.programmable_config.rule_set,
          authorization_rules_program |-> AUTH_RULES_PROGRAM_ID]
    ELSE [authorization_rules |-> None, authorization_rules_program |-> None]

update_asset_v1_ix(a, holders, account) ==
    LET payer == unwrap_or(a.payer, a.authority)
        mint == to_pubkey(a.mint)
    IN IF ~mint.ok
       THEN Failed("PubkeyParseFailed", "", NotFetched, NotQueried, <<>>)
       ELSE
       LET md == decode_metadata(account)
           log1 == <<"getAccountInfo">>
       IN IF ~md.ok
          THEN Failed(md.err, md.kind, account, NotQueried, log1)
          ELSE
          LET token0 == to_pubkey_opt(a.token)
              delegate_record == to_pubkey_opt(a.delegate_record)
          IN IF ~token0.ok \/ ~delegate_record.ok
             THEN Failed("PubkeyParseFailed", "", account, NotQueried, log1)
             ELSE
             LET t == update_token(md.val, token0.val, holders)
                 seen == IF t.queried THEN holders ELSE NotQueried
                 log2 == IF t.queried THEN Append(log1, "getTokenLargestAccounts") ELSE log1
             IN IF ~t.res.ok
                THEN Failed(t.res.err, "", account, seen, log2)
                ELSE
                LET asset == update_edition(Asset_new(mint.val), md.val)
                    rules == update_auth_rules(md.val)
                IN Built([kind |-> "update",
                          payer |-> payer,
                          authority |-> a.authority,
                          mint |-> asset.mint,
                          metadata |-> asset.metadata,
                          delegate_record |-> delegate_record.val,
                          token |-> t.res.val,
                          edition |-> asset.edition,
                          system_program |-> SYSTEM_PROGRAM_ID,
                          sysvar_instructions |-> SYSVAR_INSTRUCTIONS_ID,
                          authorization_rules |-> rules.authorization_rules,
                          authorization_rules_program |-> rules.authorization_rules_program],
                         account, seen, log2)

set_compute_unit_limit(units) == [kind |-> "SetComputeUnitLimit", value |-> units]
set_compute_unit_price(price) == [kind |-> "SetComputeUnitPrice", value |-> price]

\* -------------------------------------------------------------------- mint
ASSOCIATED_TOKEN_PROGRAM_ID == <<"ATokenGPvbdGVxr1b2hvZbsiqW5xWH25efTNsLJA8knL">>

\* The public key of Keypair::new()
GeneratedMintKey == <<"generatedMint">>

\* spl_associated_token_account::get_associated_token_address
get_associated_token_address(wallet_address, token_mint_address) ==
    derive_generic_pda(<<wallet_address, SPL_TOKEN_PROGRAM_ID, token_mint_address>>,
                       ASSOCIATED_TOKEN_PROGRAM_ID)

\* Option<PrintSupply>, the supply limit left out; "None" is the absent one
OptPrintSupplies == {"None", "Zero", "Limited", "Unlimited"}

\* Option<u8>
NoDecimals == [is_some |-> FALSE, val |-> 0]

\* Mutant: nine decimals are refused as well
mint_decimals_ok_BelowNine(mint_decimals) ==
    ~(mint_decimals.is_some /\ mint_decimals.val >= 9)

\* mint/mod.rs 118-122
mint_decimals_ok(mint_decimals) ==
    ~(mint_decimals.is_some /\ mint_decimals.val > 9)

\* Mutant: the token record is derived from the receiver
mint_token_accounts_FromReceiver(receiver, mint) ==
    [token_ata |-> get_associated_token_address(receiver, mint),
     token_record |-> derive_token_record_pda(mint, receiver)]

\* mint/mod.rs 168-169
mint_token_accounts(receiver, mint) ==
    LET token_ata == get_associated_token_address(receiver, mint)
    IN [token_ata |-> token_ata,
        token_record |-> derive_token_record_pda(mint, token_ata)]

\* Mutant: the amount of a non-fungible is not looked at
mint_master_edition_AnyAmount(asset, token_standard, amount) ==
    IF token_standard \in {"NonFungible", "ProgrammableNonFungible"}
    THEN [ok |-> TRUE, edition |-> add_edition(asset).edition]
    ELSE [ok |-> TRUE, edition |-> None]

\* mint/mod.rs 182-193
mint_master_edition(asset, token_standard, amount) ==
    IF token_standard \in {"NonFungible", "ProgrammableNonFungible"}
    THEN IF amount # 1
         THEN [ok |-> FALSE, edition |-> None]
         ELSE [ok |-> TRUE, edition |-> add_edition(asset).edition]
    ELSE [ok |-> TRUE, edition |-> None]

\* What mint_asset_v1 leaves behind when it returns early: it has asked the
\* chain nothing by then.
MintFailed(e) ==
    [res |-> Err(e, ""), ix |-> NoIx, create_ix |-> NoIx, fetched |-> NotFetched,
     largest |-> NotQueried, calls |-> <<>>]

\* mint/mod.rs 92-203.  The descriptive fields of AssetData (name, symbol,
\* uri, creators, ...) and the authorization data are copied into the
\* builders unchanged and decide nothing.
mint_asset_v1(a, new_keypair) ==
    LET mint_signer == IF a.mint # None THEN a.mint ELSE new_keypair
        asset == Asset_new(mint_signer)
        receiver == to_pubkey(a.receiver)
    IN IF ~receiver.ok
       THEN MintFailed("PubkeyParseFailed")
       ELSE
       LET payer == unwrap_or(a.payer, a.authority)
           token_standard == a.asset_data.token_standard
       IN IF ~mint_decimals_ok(a.mint_decimals)
          THEN MintFailed("Decimals must be less than or equal to 9")
          ELSE
          LET t == mint_token_accounts(receiver.val, asset.mint)
              e == mint_master_edition(asset, token_standard, a.amount)
          IN IF ~e.ok
             THEN MintFailed("Non-fungible assets must have an amount of 1")
             ELSE
             [res |-> Pending,
              create_ix |->
                  [kind |-> "create",
                   mint |-> asset.mint,
                   mint_is_signer |-> TRUE,
                   metadata |-> asset.metadata,
                   master_edition |-> e.edition,
                   authority |-> a.authority,
                   payer |-> payer,
                   update_authority |-> a.authority,
                   token_standard |-> token_standard,
                   system_program |-> SYSTEM_PROGRAM_ID,
                   rule_set |-> a.asset_data.rule_set,
                   decimals |-> a.mint_decimals,
                   print_supply |-> a.print_supply],
              ix |->
                  [kind |-> "mint",
                   metadata |-> asset.metadata,
                   master_edition |-> e.edition,
                   token |-> t.token_ata,
                   token_owner |-> receiver.val,
                   token_record |-> t.token_record,
                   mint |-> asset.mint,
                   authority |-> a.authority,
                   payer |-> payer,
                   system_program |-> SYSTEM_PROGRAM_ID,
                   amount |-> a.amount],
              fetched |-> NotFetched,
              largest |-> NotQueried,
              calls |-> <<>>]

\* --------------------------------------------------------- verify, unverify
\* matches!(md.token_standard, Some(NonFungible | ProgrammableNonFungible) | None)
verify_standard_ok(token_standard) ==
    token_standard \in {"NonFungible", "ProgrammableNonFungible", "None"}

\* verify/creator.rs 16-39: up to the instruction
verify_creator_v1(a, account) ==
    LET mint == to_pubkey(a.mint)
    IN IF ~mint.ok
       THEN Failed("PubkeyParseFailed", "", NotFetched, NotQueried, <<>>)
       ELSE
       LET asset == Asset_new(mint.val)
           md == decode_metadata(account)
       IN IF ~md.ok
          THEN Failed(md.err, md.kind, account, NotQueried, <<"getAccountInfo">>)
          ELSE IF ~verify_standard_ok(md.val.token_standard)
          THEN Failed("Only NFTs or pNFTs can have creators be verified", "",
                      account, NotQueried, <<"getAccountInfo">>)
          ELSE Built([kind |-> "verify_creator",
                      authority |-> a.authority,
                      metadata |-> asset.metadata],
                     account, NotQueried, <<"getAccountInfo">>)

\* unverify/creator.rs 20-43: up to the instruction
unverify_creator_v1(a, account) ==
    LET mint == to_pubkey(a.mint)
    IN IF ~mint.ok
       THEN Failed("PubkeyParseFailed", "", NotFetched, NotQueried, <<>>)
       ELSE
       LET asset == Asset_new(mint.val)
           md == decode_metadata(account)
       IN IF ~md.ok
          THEN Failed(md.err, md.kind, account, NotQueried, <<"getAccountInfo">>)
          ELSE IF ~verify_standard_ok(md.val.token_standard)
          THEN Failed("Only NFTs or pNFTs can have creators be verified", "",
                      account, NotQueried, <<"getAccountInfo">>)
          ELSE Built([kind |-> "unverify_creator",
                      authority |-> a.authority,
                      metadata |-> asset.metadata],
                     account, NotQueried, <<"getAccountInfo">>)

\* Mutant: the record is derived from the authority in both places
verify_delegate_record_FromAuthority(collection_mint, md, authority, is_delegate) ==
    IF is_delegate
    THEN MetadataDelegateRecord_find_pda(
             collection_mint, MetadataDelegateRoleSeed("Collection"),
             authority, authority)
    ELSE None

\* verify/collection.rs 105-113
verify_delegate_record(collection_mint, md, authority, is_delegate) ==
    IF is_delegate
    THEN MetadataDelegateRecord_find_pda(
             collection_mint, MetadataDelegateRoleSeed("Collection"),
             md.update_authority, authority)
    ELSE None

\* verify/collection.rs 72-118
verify_collection_v1_ix(a, account) ==
    LET mint == to_pubkey(a.mint)
        collection_mint == to_pubkey(a.collection_mint)
    IN IF ~mint.ok \/ ~collection_mint.ok
       THEN Failed("PubkeyParseFailed", "", NotFetched, NotQueried, <<>>)
       ELSE
       LET asset == Asset_new(mint.val)
           md == decode_metadata(account)
       IN IF ~md.ok
          THEN Failed(md.err, md.kind, account, NotQueried, <<"getAccountInfo">>)
          ELSE
          LET collection_asset == add_edition(Asset_new(collection_mint.val))
          IN Built([kind |-> "verify_collection",
                    authority |-> a.authority,
                    metadata |-> asset.metadata,
                    collection_mint |-> collection_mint.val,
                    collection_metadata |-> collection_asset.metadata,
                    collection_master_edition |-> collection_asset.edition,
                    delegate_record |->
                        verify_delegate_record(collection_mint.val, md.val,
                                               a.authority, a.is_delegate)],
                   account, NotQueried, <<"getAccountInfo">>)

\* unverify/collection.rs 109-117: find_metadata_delegate_record_account
unverify_delegate_record(collection_mint, md, authority, is_delegate) ==
    IF is_delegate
    THEN derive_generic_pda(
             <<METADATA_PREFIX, ID, collection_mint,
               MetadataDelegateRoleSeed("Collection"), md.update_authority, authority>>,
             ID)
    ELSE None

\* unverify/collection.rs 70-125.  UnverifyBuilder has no master-edition
\* account.
unverify_collection_v1_ix(a, account) ==
    LET mint == to_pubkey(a.mint)
        collection_mint == to_pubkey(a.collection_mint)
    IN IF ~mint.ok \/ ~collection_mint.ok
       THEN Failed("PubkeyParseFailed", "", NotFetched, NotQueried, <<>>)
       ELSE
       LET asset == Asset_new(mint.val)
           md == decode_metadata(account)
       IN IF ~md.ok
          THEN Failed(md.err, md.kind, account, NotQueried, <<"getAccountInfo">>)
          ELSE IF ~verify_standard_ok(md.val.token_standard)
          THEN Failed("This feature only supports NFTs or pNFTs verified", "",
                      account, NotQueried, <<"getAccountInfo">>)
          ELSE
          LET collection_asset == add_edition(Asset_new(collection_mint.val))
          IN Built([kind |-> "unverify_collection",
                    authority |-> a.authority,
                    metadata |-> asset.metadata,
                    collection_mint |-> collection_mint.val,
                    collection_metadata |-> collection_asset.metadata,
                    delegate_record |->
                        unverify_delegate_record(collection_mint.val, md.val,
                                                 a.authority, a.is_delegate)],
                   account, NotQueried, <<"getAccountInfo">>)

\* ------------------------------------------------------------------- check
\* A string is the sequence of its characters.  A run of characters that no
\* parser looks into (a key, a base58 address, the words true and false) is
\* written as one element; it holds none of the separators '=', ',' and ':'.
DigitChars == <<"0", "1", "2", "3", "4", "5", "6", "7", "8", "9">>
IsDigit(c) == \E i \in 1..Len(DigitChars) : DigitChars[i] = c
DigitValue(c) == (CHOOSE i \in 1..Len(DigitChars) : DigitChars[i] = c) - 1

U16_MAX == 65535
U8_MAX == 255

RECURSIVE split(_, _)
\* str::split(sep): the pieces of s between the occurrences of sep
split(s, sep) ==
    IF \A i \in 1..Len(s) : s[i] # sep
    THEN <<s>>
    ELSE LET i == CHOOSE k \in 1..Len(s) :
                      s[k] = sep /\ \A j \in 1..(k - 1) : s[j] # sep
         IN <<SubSeq(s, 1, i - 1)>> \o split(SubSeq(s, i + 1, Len(s)), sep)

RECURSIVE DigitsValue(_)
DigitsValue(s) ==
    IF s = <<>> THEN 0
    ELSE 10 * DigitsValue(SubSeq(s, 1, Len(s) - 1)) + DigitValue(s[Len(s)])

\* str::parse::<u16> / ::<u8>: an optional '+', then one or more digits,
\* the value within the type
parse_uint(s, max) ==
    LET digits == IF s # <<>> /\ s[1] = "+" THEN Tail(s) ELSE s
    IN IF digits = <<>> \/ \E i \in 1..Len(digits) : ~IsDigit(digits[i])
       THEN [ok |-> FALSE, val |-> 0]
       ELSE IF DigitsValue(digits) > max
       THEN [ok |-> FALSE, val |-> 0]
       ELSE [ok |-> TRUE, val |-> DigitsValue(digits)]

RECURSIVE uint_to_string(_)
\* Display of an unsigned integer
uint_to_string(n) ==
    IF n < 10 THEN <<DigitChars[n + 1]>>
    ELSE uint_to_string(n \div 10) \o <<DigitChars[(n % 10) + 1]>>

\* str::parse::<bool>
parse_bool(s) ==
    IF s = <<"true">> THEN [ok |-> TRUE, val |-> TRUE]
    ELSE IF s = <<"false">> THEN [ok |-> TRUE, val |-> FALSE]
    ELSE [ok |-> FALSE, val |-> FALSE]

bool_to_string(b) == IF b THEN <<"true">> ELSE <<"false">>

\* The strings that are base58 public keys
PubkeyStrings == {AuthorityKey, OwnerKey}

\* <&str as ToPubkey>::to_pubkey on a piece of the input
str_to_pubkey(s) ==
    IF s \in PubkeyStrings
    THEN [ok |-> TRUE, val |-> s]
    ELSE [ok |-> FALSE, val |-> None]

Parsed(v) == [state |-> "ok", err |-> "", val |-> v]
ParseErr(e) == [state |-> "err", err |-> e, val |-> None]
\* Option::unwrap on None
Panic == [state |-> "panic", err |-> "unwrap on None", val |-> None]

\* check/mod.rs 40-51: one creator
parse_creator(c) ==
    LET pieces == split(c, ":")
        address == str_to_pubkey(pieces[1])
    IN IF ~address.ok THEN ParseErr("PubkeyParseFailed")
       ELSE IF Len(pieces) < 2 THEN Panic
       ELSE LET verified == parse_bool(pieces[2])
            IN IF ~verified.ok THEN ParseErr("ParseBoolError")
               ELSE IF Len(pieces) < 3 THEN Panic
               ELSE LET share == parse_uint(pieces[3], U8_MAX)
                    IN IF ~share.ok THEN ParseErr("ParseIntError")
                       ELSE Parsed([address |-> address.val,
                                    verified |-> verified.val,
                                    share |-> share.val])

RECURSIVE parse_creators(_)
\* .map(..).collect::<Result<Vec<Creator>>>(): stops at the first failure
parse_creators(cs) ==
    IF cs = <<>> THEN Parsed(<<>>)
    ELSE LET first == parse_creator(Head(cs))
         IN IF first.state # "ok" THEN first
            ELSE LET rest == parse_creators(Tail(cs))
                 IN IF rest.state # "ok" THEN rest
                    ELSE Parsed(<<first.val>> \o rest.val)

TextKeys ==
    {"name", "symbol", "uri", "update_authority", "token_standard",
     "collection_parent", "rule_set"}
BoolKeys == {"primary_sale_happened", "is_mutable", "collection_verified"}

\* check/mod.rs 24-68.  The variant of the value is named by its key.
MetadataValue_from_str(s) ==
    LET pieces == split(s, "=")
    IN IF Len(pieces[1]) # 1 THEN
          IF Len(pieces) < 2 THEN Panic ELSE ParseErr("Invalid metadata key")
       ELSE IF Len(pieces) < 2 THEN Panic
       ELSE
       LET key == pieces[1][1]
           value == pieces[2]
       IN IF key \in TextKeys THEN Parsed([key |-> key, val |-> value])
          ELSE IF key = "sfbp"
          THEN LET n == parse_uint(value, U16_MAX)
               IN IF ~n.ok THEN ParseErr("ParseIntError")
                  ELSE Parsed([key |-> key, val |-> n.val])
          ELSE IF key = "creators"
          THEN LET creators == parse_creators(split(value, ","))
               IN IF creators.state # "ok" THEN creators
                  ELSE Parsed([key |-> key, val |-> creators.val])
          ELSE IF key \in BoolKeys
          THEN LET b == parse_bool(value)
               IN IF ~b.ok THEN ParseErr("ParseBoolError")
                  ELSE Parsed([key |-> key, val |-> b.val])
          ELSE ParseErr("Invalid metadata key")

RECURSIVE join(_, _)
\* [String]::join(sep)
join(l, sep) ==
    IF l = <<>> THEN <<>>
    ELSE IF Len(l) = 1 THEN l[1]
    ELSE l[1] \o <<sep>> \o join(Tail(l), sep)

\* format!("{}:{}:{}", c.address, c.verified, c.share)
creator_to_string(c) ==
    c.address \o <<":">> \o bool_to_string(c.verified) \o <<":">> \o uint_to_string(c.share)

\* check/mod.rs 70-109
MetadataValue_to_string(v) ==
    <<v.key, "=">> \o
        (IF v.key \in TextKeys THEN v.val
         ELSE IF v.key = "sfbp" THEN uint_to_string(v.val)
         ELSE IF v.key = "creators"
         THEN join([i \in 1..Len(v.val) |-> creator_to_string(v.val[i])], ",")
         ELSE bool_to_string(v.val))

\* ----------------------------------------------------------------- requests
InKeys(k) == {k, BadAddress}
OptPayers == {None, PayerKey}

TransferRequests ==
    [payer : OptPayers, authority : {AuthorityKey}, mint : InKeys(MintKey),
     source_owner : InKeys(OwnerKey), source_token : InKeys(TokenKey(1)),
     destination_owner : InKeys(DelegateKey), destination_token : InKeys(TokenKey(2)),
     amount : {1}]

\* token_record is what a caller going by the documented inputs of burn would
\* want to pass; BurnAssetArgs::V1 has no field for it.
BurnRequests ==
    [authority : {AuthorityKey}, mint : InKeys(MintKey), token : InKeys(TokenKey(1)),
     amount : {1}, token_record : {None, TokenRecordKey}]

UpdateRequests ==
    [payer : OptPayers, authority : {AuthorityKey}, mint : InKeys(MintKey),
     token : {None} \cup InKeys(TokenKey(1)),
     delegate_record : {None} \cup InKeys(DelegateRecordKey),
     priority : Priorities]

DelegateRequests ==
    [payer : OptPayers, authority : {AuthorityKey}, mint : InKeys(MintKey),
     token : {None} \cup InKeys(TokenKey(1)), delegate : InKeys(DelegateKey),
     delegate_args : [variant : DelegateVariants, amount : {1}]]

RevokeRequests ==
    [payer : OptPayers, authority : {AuthorityKey}, mint : InKeys(MintKey),
     token : {None} \cup InKeys(TokenKey(1)), delegate : InKeys(DelegateKey),
     revoke_args : [variant : RevokeVariants, amount : {1}]]

MintRequests ==
    [payer : OptPayers, authority : {AuthorityKey}, receiver : InKeys(OwnerKey),
     mint : {None, MintKey},
     asset_data : [token_standard : TokenStandards, rule_set : {None, RuleSetKey}],
     print_supply : OptPrintSupplies,
     mint_decimals : {NoDecimals} \cup [is_some : {TRUE}, val : 0..MaxDecimals],
     amount : 0..MaxAmount]

CreatorRequests == [authority : {AuthorityKey}, mint : InKeys(MintKey)]

CollectionRequests ==
    [authority : {AuthorityKey}, mint : InKeys(MintKey),
     collection_mint : InKeys(CollectionKey), is_delegate : BOOLEAN]

\* The inputs of MetadataValue::from_str: key=value lines of the documented
\* grammar
StringsOver(chars, lo, hi) == UNION {[1..n -> chars] : n \in lo..hi}
CreatorStrings ==
    {a \o <<":">> \o b \o <<":">> \o n :
        a \in {AuthorityKey}, b \in {<<"true">>, <<"false">>},
        n \in StringsOver({"0", "7"}, 1, 2)}
MetadataValueStrings ==
    {<<k, "=">> \o v : k \in TextKeys, v \in StringsOver({"a", "="}, 0, MaxLen)} \cup
    {<<"sfbp", "=">> \o v : v \in StringsOver({"0", "7"}, 1, MaxLen)} \cup
    {<<k, "=">> \o v : k \in BoolKeys, v \in {<<"true">>, <<"false">>}} \cup
    {<<"creators", "=">> \o join(l, ",") :
        l \in StringsOver(CreatorStrings, 1, MaxCreators)}

\* ------------------------------------------------------------------ actions
Init ==
    /\ pc = "ready"
    /\ op = "none"
    /\ args = <<>>
    /\ fetched = NotFetched
    /\ largest = NotQueried
    /\ calls = <<>>
    /\ ix = NoIx
    /\ instructions = <<>>
    /\ result = Pending
    /\ attempts = 0

\* Mutant: the error of the assembler is dropped and the call goes on
Assembled_ErrorSwallowed(name, a, out, ixs) ==
    /\ op' = name
    /\ args' = a
    /\ fetched' = out.fetched
    /\ largest' = out.largest
    /\ calls' = out.calls
    /\ ix' = out.ix
    /\ instructions' = IF out.res.state = "pending" THEN ixs ELSE <<>>
    /\ result' = Pending
    /\ pc' = "blockhash"
    /\ attempts' = 0

\* The assembly part of a top-level operation has run with outcome out; on
\* success the operation goes on to sign and submit ixs.
Assembled(name, a, out, ixs) ==
    /\ op' = name
    /\ args' = a
    /\ fetched' = out.fetched
    /\ largest' = out.largest
    /\ calls' = out.calls
    /\ ix' = out.ix
    /\ instructions' = IF out.res.state = "pending" THEN ixs ELSE <<>>
    /\ result' = out.res
    /\ pc' = IF out.res.state = "pending" THEN "blockhash" ELSE "done"
    /\ attempts' = 0

\* The largest-holder answer is an input only of a call that can ask for it.
LargestAnswers(asked) == IF asked THEN LargestResponses ELSE {NotQueried}

transfer_asset ==
    /\ pc = "ready"
    /\ \E a \in TransferRequests, account \in AccountResponsesNoCollection :
          \E out \in {transfer_asset_v1(a, account)} :
              Assembled("transfer", a, out, <<out.ix>>)

burn_asset ==
    /\ pc = "ready"
    /\ \E a \in BurnRequests, account \in AccountResponses :
          \E out \in {burn_asset_v1(a, account)} :
              Assembled("burn", a, out, <<out.ix>>)

update_asset ==
    /\ pc = "ready"
    /\ \E a \in UpdateRequests, account \in AccountResponsesNoCollection :
          \E holders \in LargestAnswers(a.token = None) :
              \E out \in {update_asset_v1_ix(a, holders, account)} :
                  Assembled("update", a, out,
                            << set_compute_unit_limit(UPDATE_COMPUTE_UNITS),
                               set_compute_unit_price(micro_lamports(a.priority)),
                               out.ix >>)

delegate_asset ==
    /\ pc = "ready"
    /\ \E a \in DelegateRequests, account \in AccountResponsesNoCollection :
          \E holders \in LargestAnswers(a.token = None) :
              \E out \in {delegate_asset_v1_ix(a, holders, account)} :
                  Assembled("delegate", a, out, <<out.ix>>)

revoke_asset ==
    /\ pc = "ready"
    /\ \E a \in RevokeRequests, account \in AccountResponsesNoCollection :
          \E holders \in LargestAnswers(a.token = None) :
              \E out \in {revoke_asset_v1_ix(a, holders, account)} :
                  Assembled("revoke", a, out, <<out.ix>>)

mint_asset ==
    /\ pc = "ready"
    /\ \E a \in MintRequests, new_keypair \in {GeneratedMintKey} :
          \E out \in {mint_asset_v1(a, new_keypair)} :
              Assembled("mint", a, out, <<out.create_ix, out.ix>>)

verify_creator ==
    /\ pc = "ready"
    /\ \E a \in CreatorRequests, account \in AccountResponsesNoCollection :
          \E out \in {verify_creator_v1(a, account)} :
              Assembled("verify_creator", a, out, <<out.ix>>)

unverify_creator ==
    /\ pc = "ready"
    /\ \E a \in CreatorRequests, account \in AccountResponsesNoCollection :
          \E out \in {unverify_creator_v1(a, account)} :
              Assembled("unverify_creator", a, out, <<out.ix>>)

verify_collection ==
    /\ pc = "ready"
    /\ \E a \in CollectionRequests, account \in AccountResponsesNoCollection :
          \E out \in {verify_collection_v1_ix(a, account)} :
              Assembled("verify_collection", a, out, <<out.ix>>)

unverify_collection ==
    /\ pc = "ready"
    /\ \E a \in CollectionRequests, account \in AccountResponsesNoCollection :
          \E out \in {unverify_collection_v1_ix(a, account)} :
              Assembled("unverify_collection", a, out, <<out.ix>>)

\* derive/mod.rs: the derivers called on their own
derive_pda ==
    /\ pc = "ready"
    /\ \E pubkey \in {MintKey, CollectionKey, TokenKey(1)} :
          \E f \in {"derive_metadata_pda", "derive_edition_pda"} :
              /\ op' = f
              /\ args' = [pubkey |-> pubkey]
              /\ result' = Ok(IF f = "derive_metadata_pda"
                              THEN derive_metadata_pda(pubkey)
                              ELSE derive_edition_pda(pubkey))
              /\ pc' = "done"
              /\ UNCHANGED <<fetched, largest, calls, ix, instructions, attempts>>

\* data.rs 21-48: an Asset handle in the caller's hands.  args is the handle,
\* op the method called last, result what it returned, attempts the number
\* of methods called on it.
call_Asset_new ==
    /\ pc = "ready"
    /\ \E mint \in {MintKey, CollectionKey} :
          /\ op' = "Asset::new"
          /\ args' = Asset_new(mint)
          /\ result' = Ok(None)
          /\ pc' = "asset"
          /\ UNCHANGED <<fetched, largest, calls, ix, instructions, attempts>>

call_add_edition ==
    /\ pc = "asset"
    /\ attempts < MaxCalls
    /\ op' = "add_edition"
    /\ args' = add_edition(args)
    /\ result' = Ok(None)
    /\ attempts' = attempts + 1
    /\ UNCHANGED <<pc, fetched, largest, calls, ix, instructions>>

call_get_token_record ==
    /\ pc = "asset"
    /\ attempts < MaxCalls
    /\ \E token \in TokenKeys :
          /\ op' = "get_token_record"
          /\ result' = Ok(get_token_record(args, token))
          /\ attempts' = attempts + 1
          /\ UNCHANGED <<pc, args, fetched, largest, calls, ix, instructions>>

call_get_metadata ==
    /\ pc = "asset"
    /\ attempts < MaxCalls
    /\ \E account \in AccountResponsesNoCollection :
          \E md \in {decode_metadata(account)} :
              /\ op' = "get_metadata"
              /\ fetched' = account
              /\ calls' = Append(calls, "getAccountInfo")
              /\ result' = IF md.ok THEN Ok(md.val) ELSE Err(md.err, md.kind)
              /\ attempts' = attempts + 1
              /\ UNCHANGED <<pc, args, largest, ix, instructions>>

\* s.parse::<MetadataValue>()
from_str ==
    /\ pc = "ready"
    /\ \E s \in MetadataValueStrings :
          \E r \in {MetadataValue_from_str(s)} :
              /\ op' = "MetadataValue::from_str"
              /\ args' = [s |-> s]
              /\ result' = [state |-> r.state, err |-> r.err, kind |-> "", val |-> r.val]
              /\ pc' = IF r.state = "ok" THEN "parsed" ELSE "done"
              /\ UNCHANGED <<fetched, largest, calls, ix, instructions, attempts>>

\* value.to_string() on the parsed value
to_string ==
    /\ pc = "parsed"
    /\ op' = "MetadataValue::to_string"
    /\ result' = Ok(MetadataValue_to_string(result.val))
    /\ pc' = "done"
    /\ UNCHANGED <<args, fetched, largest, calls, ix, instructions, attempts>>

\* nft.rs: the locator called on its own
locate_token_account ==
    /\ pc = "ready"
    /\ \E mint \in {MintKey}, holders \in LargestResponses :
        LET r == get_nft_token_account(holders)
        IN /\ op' = "get_nft_token_account"
           /\ args' = [mint |-> mint]
           /\ largest' = holders
           /\ calls' = <<"getTokenLargestAccounts">>
           /\ result' = IF r.ok THEN Ok(r.val) ELSE Err(r.err, "")
           /\ pc' = "done"
           /\ UNCHANGED <<fetched, ix, instructions, attempts>>

\* Operations that submit under retry(Exponential::from_millis_with_factor(250, 2.0).take(3), ..)
RetryDelays == 3
Retrying(name) ==
    name \in {"transfer", "burn", "mint", "verify_creator", "verify_collection",
              "unverify_collection"}

\* client.get_latest_blockhash()? before the transaction is signed
get_latest_blockhash ==
    /\ pc = "blockhash"
    /\ calls' = Append(calls, "getLatestBlockhash")
    /\ \E ok \in BOOLEAN :
          IF ok
          THEN pc' = "send" /\ result' = result
          ELSE pc' = "done" /\ result' = Err("ClientError", "Transport")
    /\ UNCHANGED <<op, args, fetched, largest, ix, instructions, attempts>>

\* One client.send_and_confirm_transaction(&tx).  retry() runs the operation
\* again after a failure as long as the delay iterator yields a delay.
send_and_confirm_transaction ==
    /\ pc = "send"
    /\ calls' = Append(calls, "sendTransaction")
    /\ attempts' = attempts + 1
    /\ \E ok \in BOOLEAN :
          IF ok
          THEN /\ pc' = "done"
               /\ result' = Ok(IF op = "mint"
                               THEN [signature |-> Signature, mint |-> ix.mint]
                               ELSE Signature)
          ELSE IF Retrying(op) /\ attempts < RetryDelays
          THEN pc' = "send" /\ result' = result
          ELSE pc' = "done" /\ result' = Err("ClientError", "Transport")
    /\ UNCHANGED <<op, args, fetched, largest, ix, instructions>>

Next ==
    \/ transfer_asset
    \/ burn_asset
    \/ update_asset
    \/ delegate_asset
    \/ revoke_asset
    \/ mint_asset
    \/ verify_creator
    \/ unverify_creator
    \/ verify_collection
    \/ unverify_collection
    \/ derive_pda
    \/ call_Asset_new
    \/ call_add_edition
    \/ call_get_token_record
    \/ call_get_metadata
    \/ from_str
    \/ to_string
    \/ locate_token_account
    \/ get_latest_blockhash
    \/ send_and_confirm_transaction

Spec == Init /\ [][Next]_vars

\* ================================================================== claims
\* The addresses of section 4.1, written out from their seed tuples
metadata_pda(mint) == <<"pda">> \o ID \o <<"metadata">> \o ID \o mint
edition_pda(mint) == <<"pda">> \o ID \o <<"metadata">> \o ID \o mint \o <<"edition">>
token_record_pda(mint, token_account) ==
    <<"pda">> \o ID \o <<"metadata">> \o ID \o mint \o <<"token_record">> \o token_account
metadata_delegate_record_pda(mint, role, creator, delegate) ==
    <<"pda">> \o ID \o <<"metadata">> \o ID \o mint
        \o MetadataDelegateRoleSeed(role) \o creator \o delegate

Emitted == ix.kind # "none"
Snapshot == fetched.md
HasRuleSet == Snapshot.programmable_config.is_some /\ Snapshot.programmable_config.rule_set # None
NonFungibleOrAbsent ==
    Snapshot.token_standard \in
        {"NonFungible", "NonFungibleEdition", "ProgrammableNonFungible", "None"}
Programmable == Snapshot.token_standard = "ProgrammableNonFungible"

\* The accounts of the largest-holder answer that hold exactly one unit
Candidates == {i \in 1..Len(largest.value) : largest.value[i].amount = <<1>>}
SingleHolder == largest.value[CHOOSE i \in Candidates : TRUE].address

\* The variant of a delegate or revoke request
Variant == IF op = "delegate" THEN args.delegate_args.variant ELSE args.revoke_args.variant
DelegateOrRevoke == op \in {"delegate", "revoke"} /\ Emitted
TokenRecordFamily ==
    \/ Variant \in {"SaleV1", "TransferV1", "UtilityV1", "StakingV1",
                    "LockedTransferV1", "PrintDelegateV1"}
    \/ op = "revoke" /\ Variant = "MigrationV1"
PersistentRecordFamily ==
    Variant \in {"AuthorityItemV1", "DataV1", "DataItemV1", "CollectionV1",
                 "CollectionItemV1", "ProgrammableConfigV1", "ProgrammableConfigItemV1"}
RoleOf ==
    [AuthorityItemV1 |-> "AuthorityItem", DataV1 |-> "Data", DataItemV1 |-> "DataItem",
     CollectionV1 |-> "Collection", CollectionItemV1 |-> "CollectionItem",
     ProgrammableConfigV1 |-> "ProgrammableConfig",
     ProgrammableConfigItemV1 |-> "ProgrammableConfigItem"]

\* Positions of the delegate / revoke account list
DelegateRecordSlot == ix.accounts[1].pubkey
MasterEditionSlot == ix.accounts[4].pubkey
TokenRecordSlot == ix.accounts[5].pubkey
TokenSlot == ix.accounts[7].pubkey

\* The token account a delegate / revoke request resolves to
ResolvedToken == IF args.token # None THEN args.token ELSE SingleHolder

\* C1: a transfer of a ProgrammableNonFungible carries the source and the
\* destination token record, and the authorization rules exactly when the
\* programmable config holds a rule set; for every other standard the
\* assembler sets no token record and no authorization rules.
C1_TransferProgrammableAccounts ==
    (op = "transfer" /\ Emitted) =>
        IF Programmable
        THEN /\ ix.owner_token_record = token_record_pda(args.mint, args.source_token)
             /\ ix.destination_token_record =
                    token_record_pda(args.mint, args.destination_token)
             /\ ix.authorization_rules =
                    (IF HasRuleSet THEN Snapshot.programmable_config.rule_set ELSE None)
        ELSE /\ ix.owner_token_record = None
             /\ ix.destination_token_record = None
             /\ ix.authorization_rules = None

C1_Witness ==
    /\ op = "transfer" /\ Emitted /\ Programmable /\ HasRuleSet
    /\ ix.authorization_rules = RuleSetKey
    /\ ix.owner_token_record # ix.destination_token_record

\* C2: for a token-record-family delegate or revoke the token-record slot is
\* token_record_pda(mint, T), T the supplied token account or else the single
\* holder found by the locator.
C2_TokenRecordSlot ==
    (DelegateOrRevoke /\ TokenRecordFamily) =>
        TokenRecordSlot = token_record_pda(args.mint, ResolvedToken)

C2_Witness ==
    /\ DelegateOrRevoke /\ TokenRecordFamily
    /\ args.token = None
    /\ Len(largest.value) = 2
    /\ TokenRecordSlot = token_record_pda(MintKey, TokenKey(2))

\* C3: the locator returns the one account whose amount is exactly 1, fails
\* with the more-than-one error when several have amount 1 and with the zero
\* error when none has; accounts with another amount do not matter.
C3_Locator ==
    (op = "get_nft_token_account" /\ largest.status = "Ok") =>
        /\ Cardinality(Candidates) = 1 =>
              result.state = "ok" /\ result.val = SingleHolder
        /\ Cardinality(Candidates) > 1 =>
              result.state = "err" /\ result.err = "MoreThanOneTokenAccount"
        /\ Cardinality(Candidates) = 0 =>
              result.state = "err" /\ result.err = "ZeroTokenAccounts"

C3_Witness ==
    /\ op = "get_nft_token_account" /\ result.state = "ok"
    /\ Len(largest.value) = 2
    /\ largest.value[1].amount = <<1, 0>>
    /\ result.val = largest.value[2].address

\* C4: the locator is queried only if the token account was omitted and the
\* operation needs one (token-record-family delegate / revoke, update of a
\* ProgrammableNonFungible).
C4_LocatorOnlyWhenNeeded ==
    (op \in {"delegate", "revoke", "update"} /\ largest.status # "NotQueried") =>
        /\ args.token = None
        /\ IF op = "update" THEN Programmable ELSE TokenRecordFamily

\* C5: the token slot of the update instruction is the supplied token account
\* if there is one, else the located holder for a ProgrammableNonFungible,
\* else unset.
C5_UpdateTokenSlot ==
    (op = "update" /\ Emitted) =>
        ix.token = (IF args.token # None THEN args.token
                    ELSE IF Programmable THEN SingleHolder
                    ELSE None)

\* C6: transfer includes edition_pda(mint) for a non-fungible or absent
\* standard and no edition for Fungible and FungibleAsset.
C6_TransferEdition ==
    (op = "transfer" /\ Emitted) =>
        ix.edition = (IF NonFungibleOrAbsent THEN edition_pda(args.mint) ELSE None)

\* C7: burn, update, delegate and revoke put edition_pda(mint) in the edition
\* slot exactly for a non-fungible or absent standard; otherwise the slot is
\* unset (delegate / revoke: the program id).
C7_EditionSlot ==
    /\ (op \in {"burn", "update"} /\ Emitted) =>
          ix.edition = (IF NonFungibleOrAbsent THEN edition_pda(args.mint) ELSE None)
    /\ DelegateOrRevoke =>
          MasterEditionSlot = (IF NonFungibleOrAbsent THEN edition_pda(args.mint) ELSE ID)

C7_Witness ==
    /\ op = "burn" /\ Emitted
    /\ Snapshot.token_standard = "None"
    /\ ix.edition = edition_pda(MintKey)

\* C8: burn carries metadata_pda(collection parent) exactly when the snapshot
\* has a collection with verified = true.
C8_BurnCollectionMetadata ==
    (op = "burn" /\ Emitted) =>
        ix.collection_metadata =
            (IF Snapshot.collection.is_some /\ Snapshot.collection.verified
             THEN metadata_pda(Snapshot.collection.key)
             ELSE None)

C8_Witness ==
    /\ op = "burn" /\ Emitted
    /\ Snapshot.collection.is_some /\ Snapshot.collection.verified
    /\ ix.collection_metadata = metadata_pda(CollectionKey)

C10_FamilySlots ==
    DelegateOrRevoke =>
        /\ PersistentRecordFamily =>
              /\ DelegateRecordSlot =
                    metadata_delegate_record_pda(
                        args.mint, RoleOf[Variant],
                        IF args.payer = None THEN args.authority ELSE args.payer,
                        args.delegate)
              /\ TokenRecordSlot = ID
        /\ TokenRecordFamily => DelegateRecordSlot = ID /\ TokenRecordSlot # ID
        /\ Variant = "StandardV1" => DelegateRecordSlot = ID /\ TokenRecordSlot = ID
        /\ ~(DelegateRecordSlot # ID /\ TokenRecordSlot # ID)

C10_Witness ==
    /\ DelegateOrRevoke /\ Variant = "DataItemV1" /\ args.payer = None
    /\ DelegateRecordSlot =
           metadata_delegate_record_pda(MintKey, "DataItem", AuthorityKey, DelegateKey)
    /\ TokenRecordSlot = ID

\* Positions of the delegate / revoke account list that hold optional accounts
OptionalSlots == {1, 4, 5, 7, 12, 13, 14}
Payer == IF args.payer = None THEN args.authority ELSE args.payer

\* C11: every delegate and revoke instruction names the on-chain program and
\* has exactly 14 account metas in the order delegate record, delegate,
\* metadata, master edition, token record, mint, token, authority, payer,
\* system program, sysvar instructions, token program, authorization-rules
\* program, authorization rules; an optional slot that was not resolved holds
\* the program id, non-writable and non-signer; only authority and payer sign.
C11_AccountList ==
    DelegateOrRevoke =>
        LET m == ix.accounts
        IN /\ ix.program_id = ID
           /\ Len(m) = 14
           /\ m[1].pubkey =
                 (IF PersistentRecordFamily
                  THEN metadata_delegate_record_pda(
                           args.mint, RoleOf[Variant], Payer, args.delegate)
                  ELSE ID)
           /\ m[2].pubkey = args.delegate
           /\ m[3].pubkey = metadata_pda(args.mint)
           /\ m[4].pubkey = (IF NonFungibleOrAbsent THEN edition_pda(args.mint) ELSE ID)
           /\ m[5].pubkey =
                 (IF TokenRecordFamily
                  THEN token_record_pda(args.mint, ResolvedToken)
                  ELSE ID)
           /\ m[6].pubkey = args.mint
           /\ m[7].pubkey \in {ID, ResolvedToken}
           /\ m[8].pubkey = args.authority
           /\ m[9].pubkey = Payer
           /\ m[10].pubkey = SYSTEM_PROGRAM_ID
           /\ m[11].pubkey = SYSVAR_INSTRUCTIONS_ID
           /\ m[12].pubkey \in {ID, SPL_TOKEN_PROGRAM_ID}
           /\ m[13].pubkey \in {ID, AUTH_RULES_PROGRAM_ID}
           /\ m[14].pubkey \in {ID, Snapshot.programmable_config.rule_set}
           /\ ~Snapshot.programmable_config.is_some =>
                 m[13].pubkey = ID /\ m[14].pubkey = ID
           /\ \A i \in OptionalSlots :
                 m[i].pubkey = ID => ~m[i].is_writable /\ ~m[i].is_signer
           /\ \A i \in 1..14 : m[i].is_signer <=> i \in {8, 9}

C11_Witness ==
    /\ op = "revoke" /\ Emitted /\ Variant = "StandardV1"
    /\ Snapshot.token_standard = "Fungible"
    /\ ~Snapshot.programmable_config.is_some
    /\ \A i \in OptionalSlots \ {12} :
          ix.accounts[i] = [pubkey |-> ID, is_signer |-> FALSE, is_writable |-> FALSE]
    /\ ix.accounts[9] = [pubkey |-> PayerKey, is_signer |-> TRUE, is_writable |-> TRUE]

\* The two authorization slots of the emitted update / delegate / revoke
AuthRulesSlot == IF op = "update" THEN ix.authorization_rules ELSE ix.accounts[14].pubkey
AuthRulesProgramSlot ==
    IF op = "update" THEN ix.authorization_rules_program ELSE ix.accounts[13].pubkey
Unfilled == IF op = "update" THEN None ELSE ID

\* C12: update, delegate and revoke fill the authorization-rules slot (rule
\* set) and the authorization-rules-program slot (its program id) together
\* exactly when the programmable config holds a rule set; otherwise both are
\* unfilled, and never one without the other.
C12_AuthRulesTogether ==
    (op \in {"update", "delegate", "revoke"} /\ Emitted) =>
        IF HasRuleSet
        THEN /\ AuthRulesSlot = Snapshot.programmable_config.rule_set
             /\ AuthRulesProgramSlot = AUTH_RULES_PROGRAM_ID
        ELSE /\ AuthRulesSlot = Unfilled
             /\ AuthRulesProgramSlot = Unfilled

\* The price table of section 4.7
PriceOf ==
    [None |-> 20, Low |-> 20000, Medium |-> 200000, High |-> 1000000, Max |-> 2000000]
Submitted == \E i \in 1..Len(calls) : calls[i] = "sendTransaction"

\* C13: an update with priority L submits exactly the three instructions
\* set-compute-unit-limit(50000), set-compute-unit-price(price(L)), update, in
\* this order, the prices rising strictly from None to Max; when assembling
\* the update instruction fails nothing is submitted.
C13_UpdateTransaction ==
    /\ PriceOf.None < PriceOf.Low /\ PriceOf.Low < PriceOf.Medium
    /\ PriceOf.Medium < PriceOf.High /\ PriceOf.High < PriceOf.Max
    /\ (op = "update" /\ Emitted) =>
          /\ ix.kind = "update"
          /\ instructions =
                << [kind |-> "SetComputeUnitLimit", value |-> 50000],
                   [kind |-> "SetComputeUnitPrice", value |-> PriceOf[args.priority]],
                   ix >>
    /\ (op = "update" /\ ~Emitted) =>
          /\ result.state = "err"
          /\ instructions = <<>>
          /\ ~Submitted
          /\ pc = "done"

C13_Witness ==
    /\ op = "update" /\ Emitted /\ args.priority = "High"
    /\ Submitted /\ result.state = "ok"
    /\ Len(instructions) = 3
    /\ instructions[2].value = 1000000

\* --- create + mint
Create == instructions[1]
Mint == instructions[2]
MintStandard == args.asset_data.token_standard
ReceiverParses == args.receiver # BadAddress
DecimalsPass == ~args.mint_decimals.is_some \/ args.mint_decimals.val <= 9
DecimalsError == "Decimals must be less than or equal to 9"
AmountError == "Non-fungible assets must have an amount of 1"
\* Invalid input (section 7): unparsable address, bad amount, decimals > 9
InvalidInput == {"PubkeyParseFailed", DecimalsError, AmountError}
NoChainAccess == calls = <<>> /\ fetched = NotFetched /\ largest = NotQueried
\* Associated token account of (owner, mint)
ATA(owner, mint) ==
    <<"pda">> \o ASSOCIATED_TOKEN_PROGRAM_ID \o owner \o SPL_TOKEN_PROGRAM_ID \o mint

\* C14: create+mint of a NonFungible or ProgrammableNonFungible with an
\* amount other than 1 is rejected as invalid input without any chain-access
\* call (the amount error itself once receiver and decimals are fine); with
\* amount 1 the create and the mint instruction both carry edition_pda(mint)
\* as master edition.
C14_NonFungibleAmount ==
    (op = "mint" /\ MintStandard \in {"NonFungible", "ProgrammableNonFungible"}) =>
        /\ args.amount # 1 =>
              /\ result.state = "err" /\ result.err \in InvalidInput
              /\ (ReceiverParses /\ DecimalsPass) => result.err = AmountError
              /\ ~Emitted /\ instructions = <<>> /\ pc = "done"
              /\ NoChainAccess
        /\ (args.amount = 1 /\ ReceiverParses /\ DecimalsPass) => Emitted
        /\ (args.amount = 1 /\ Emitted) =>
              /\ Len(instructions) = 2
              /\ Create.kind = "create" /\ Mint.kind = "mint"
              /\ args.mint # None => Mint.mint = args.mint
              /\ Create.mint = Mint.mint
              /\ Create.master_edition = edition_pda(Mint.mint)
              /\ Mint.master_edition = edition_pda(Mint.mint)

C14_Witness ==
    /\ op = "mint" /\ MintStandard = "ProgrammableNonFungible" /\ args.amount = 1
    /\ result.state = "ok"
    /\ Create.master_edition = edition_pda(MintKey)
    /\ Mint.master_edition = edition_pda(MintKey)

\* C15: create+mint of a Fungible or FungibleAsset never emits a create
\* instruction with print_supply set and puts no edition in either
\* instruction, whatever the request supplies.
C15_FungibleNoPrintSupply ==
    (op = "mint" /\ MintStandard \in {"Fungible", "FungibleAsset"} /\ Emitted) =>
        /\ Create.print_supply = "None"
        /\ Create.master_edition = None
        /\ Mint.master_edition = None

\* C16: create+mint with mint_decimals = Some(d), d > 9, is rejected as
\* invalid input (the decimals error once the receiver parses) before any
\* instruction is built and before any chain-access call; d <= 9 or no
\* decimals never gives the decimals error.
C16_DecimalsLimit ==
    op = "mint" =>
        /\ ~DecimalsPass =>
              /\ result.state = "err" /\ result.err \in InvalidInput
              /\ ReceiverParses => result.err = DecimalsError
              /\ ~Emitted /\ instructions = <<>> /\ pc = "done"
              /\ NoChainAccess
        /\ DecimalsPass => result.err # DecimalsError
        /\ Emitted => DecimalsPass /\ Create.decimals = args.mint_decimals

C16_Witness ==
    /\ op = "mint" /\ args.mint_decimals.is_some /\ args.mint_decimals.val = 10
    /\ MintStandard = "Fungible" /\ ReceiverParses
    /\ result.err = DecimalsError
    /\ pc = "done" /\ calls = <<>>

\* C17: the mint instruction credits ATA(receiver, mint), and for a
\* ProgrammableNonFungible its token record is
\* token_record_pda(mint, ATA(receiver, mint)), not the one of the receiver.
C17_MintDestination ==
    (op = "mint" /\ Emitted) =>
        /\ Mint.token = ATA(args.receiver, Mint.mint)
        /\ Mint.token_owner = args.receiver
        /\ MintStandard = "ProgrammableNonFungible" =>
              /\ Mint.token_record =
                    token_record_pda(Mint.mint, ATA(args.receiver, Mint.mint))
              /\ Mint.token_record # token_record_pda(Mint.mint, args.receiver)

C17_Witness ==
    /\ op = "mint" /\ Emitted /\ MintStandard = "ProgrammableNonFungible"
    /\ args.mint = None
    /\ Mint.token = ATA(OwnerKey, GeneratedMintKey)
    /\ Mint.token_record =
           token_record_pda(GeneratedMintKey, ATA(OwnerKey, GeneratedMintKey))

\* --- verify / unverify
MetadataRead == fetched.status = "Ok" /\ fetched.valid
ClearlyFungible == Snapshot.token_standard \in {"Fungible", "FungibleAsset"}
\* Semantic rejection (section 7): the asset class does not support the operation
SemanticRejection ==
    {"Only NFTs or pNFTs can have creators be verified",
     "This feature only supports NFTs or pNFTs verified"}
Rejected == result.state = "err" /\ result.err \in SemanticRejection

\* C18: verify creator and unverify creator are rejected with a validation
\* error, nothing being submitted, exactly when the target's standard is
\* Fungible or FungibleAsset; for NonFungible, NonFungibleEdition,
\* ProgrammableNonFungible and an absent standard the instruction is
\* assembled and goes on to submission.
C18_CreatorAcceptance ==
    (op \in {"verify_creator", "unverify_creator"} /\ MetadataRead) =>
        /\ Rejected <=> ClearlyFungible
        /\ Rejected => ~Emitted /\ ~Submitted /\ instructions = <<>>
        /\ ~ClearlyFungible => Emitted /\ instructions = <<ix>>

\* C19: verify collection and unverify collection on a Fungible or
\* FungibleAsset target return a validation error and emit no instruction.
C19_CollectionAcceptance ==
    (op \in {"verify_collection", "unverify_collection"} /\ MetadataRead
        /\ ClearlyFungible) =>
        Rejected /\ ~Emitted /\ instructions = <<>>

MasterEditionOf ==
    IF "collection_master_edition" \in DOMAIN ix THEN ix.collection_master_edition ELSE None

\* C20: verify collection and unverify collection fill the delegate record
\* exactly when is_delegate, with metadata_delegate_record_pda(collection
\* mint, Collection, update authority of the target's snapshot, authority);
\* the collection metadata is metadata_pda(collection mint); verify has
\* edition_pda(collection mint) as master edition, unverify none.
C20_CollectionSlots ==
    (op \in {"verify_collection", "unverify_collection"} /\ Emitted) =>
        /\ ix.delegate_record =
              (IF args.is_delegate
               THEN metadata_delegate_record_pda(
                        args.collection_mint, "Collection",
                        Snapshot.update_authority, args.authority)
               ELSE None)
        /\ ix.collection_metadata = metadata_pda(args.collection_mint)
        /\ ix.collection_mint = args.collection_mint
        /\ MasterEditionOf =
              (IF op = "verify_collection" THEN edition_pda(args.collection_mint) ELSE None)

C20_Witness ==
    /\ op = "verify_collection" /\ Emitted /\ args.is_delegate
    /\ ix.delegate_record =
           metadata_delegate_record_pda(
               CollectionKey, "Collection", UpdateAuthorityKey, AuthorityKey)
    /\ ix.collection_master_edition = edition_pda(CollectionKey)
    /\ result.state = "ok"

\* --- submission
CountOf(name) == Cardinality({i \in 1..Len(calls) : calls[i] = name})
Submissions == CountOf("sendTransaction")
TopLevel ==
    op \in {"mint", "transfer", "burn", "update", "delegate", "revoke",
            "verify_creator", "unverify_creator", "verify_collection",
            "unverify_collection"}
LastCall == calls[Len(calls)]

\* C21: a retrying submission invokes the submission collaborator at most 3
\* times in one call, stops at the first success, returns the error of the
\* last attempt when all fail, terminates, and uses one transaction signed
\* over one blockhash for every attempt.
C21_RetryBound ==
    TopLevel =>
        /\ Submissions <= 3
        /\ CountOf("getLatestBlockhash") <= 1
        /\ Submitted =>
              /\ calls[Len(calls) - Submissions] = "getLatestBlockhash"
              /\ \A i \in 1..Len(calls) :
                    i > Len(calls) - Submissions => calls[i] = "sendTransaction"
        /\ result.state = "ok" => pc = "done" /\ LastCall = "sendTransaction"

\* The request asks for the retrying submission variant
OptedIn == "with_retries" \in DOMAIN args /\ args.with_retries

\* C22: in every top-level operation a failed submission is attempted again
\* only if the caller selected the retrying variant; without that choice the
\* submission collaborator is invoked at most once.
C22_RetryOnlyIfSelected ==
    (TopLevel /\ ~OptedIn) => Submissions <= 1

\* Some address of the request does not parse
AddressFields ==
    {"mint", "token", "delegate", "delegate_record", "source_owner", "source_token",
     "destination_owner", "destination_token", "collection_mint", "receiver"}
BadInput == \E f \in AddressFields \cap DOMAIN args : args[f] = BadAddress

\* C25: when a caller-supplied address fails to parse, the operation returns
\* the invalid-input error without any chain-access call before it.
C25_ParseBeforeChain ==
    (TopLevel /\ BadInput) =>
        /\ result.state = "err" /\ result.err = "PubkeyParseFailed"
        /\ pc = "done"
        /\ NoChainAccess

\* C26: the submission collaborator is invoked only after the assembly has
\* succeeded and the blockhash was fetched, and no other network call
\* follows it; a call whose assembly or blockhash fetch failed has returned
\* the error and submitted nothing.
C26_SubmissionLast ==
    TopLevel =>
        /\ \A i \in 1..Len(calls) :
              calls[i] = "sendTransaction" =>
                  /\ Emitted
                  /\ \E j \in 1..(i - 1) : calls[j] = "getLatestBlockhash"
                  /\ \A j \in (i + 1)..Len(calls) : calls[j] = "sendTransaction"
        /\ ~Emitted =>
              /\ result.state = "err" /\ pc = "done"
              /\ instructions = <<>>
              /\ Submissions = 0 /\ CountOf("getLatestBlockhash") = 0
        /\ (pc = "done" /\ Emitted /\ LastCall = "getLatestBlockhash") =>
              result.state = "err" /\ Submissions = 0
        /\ pc \in {"blockhash", "send"} => Emitted /\ result.state = "pending"

C26_Witness ==
    /\ op = "delegate" /\ Emitted /\ pc = "done" /\ result.state = "ok"
    /\ calls = <<"getTokenLargestAccounts", "getAccountInfo", "getLatestBlockhash",
                 "sendTransaction">>

\* C27: update, delegate and revoke fetch the metadata snapshot before they
\* query the locator, so a request whose metadata account is missing fails
\* with the metadata error and never issues a largest-holder query.
C27_MetadataBeforeLocator ==
    op \in {"update", "delegate", "revoke"} =>
        /\ \A i \in 1..Len(calls) :
              calls[i] = "getTokenLargestAccounts" =>
                  \E j \in 1..(i - 1) : calls[j] = "getAccountInfo"
        /\ fetched.status = "AccountNotFound" =>
              /\ result.state = "err"
              /\ CountOf("getTokenLargestAccounts") = 0

\* C30: for a token-record-family delegate or revoke the token slot (7th
\* account) holds the resolved token account, the one the token record was
\* derived from, not the program id.
C30_TokenSlot ==
    (DelegateOrRevoke /\ TokenRecordFamily) =>
        /\ TokenSlot = ResolvedToken
        /\ TokenSlot # ID
        /\ TokenRecordSlot = token_record_pda(args.mint, TokenSlot)

\* --- derivers, fetcher, handle
\* find_program_address over a seed tuple: the seeds run together
GenericPda(seeds, program_id) == <<"pda">> \o program_id \o Concat(seeds)

\* C24: derive_metadata_pda(M) is derive_generic_pda of ("metadata", program
\* id, M) and derive_edition_pda(M) that of ("metadata", program id, M,
\* "edition"), both under the on-chain program; they depend on M alone, ask
\* the chain nothing, and differ from each other.
C24_DeriveEquivalence ==
    /\ op = "derive_metadata_pda" =>
          /\ result.val = derive_generic_pda(<<<<"metadata">>, ID, args.pubkey>>, ID)
          /\ result.val = GenericPda(<<<<"metadata">>, ID, args.pubkey>>, ID)
          /\ result.val # GenericPda(<<<<"metadata">>, ID, args.pubkey, <<"edition">>>>, ID)
          /\ NoChainAccess
    /\ op = "derive_edition_pda" =>
          /\ result.val =
                derive_generic_pda(<<<<"metadata">>, ID, args.pubkey, <<"edition">>>>, ID)
          /\ result.val = GenericPda(<<<<"metadata">>, ID, args.pubkey, <<"edition">>>>, ID)
          /\ result.val # GenericPda(<<<<"metadata">>, ID, args.pubkey>>, ID)
          /\ NoChainAccess

C24_Witness ==
    /\ op = "derive_edition_pda" /\ args.pubkey = CollectionKey
    /\ result.val = edition_pda(CollectionKey)
    /\ result.val # metadata_pda(CollectionKey)

\* The metadata fetch of the call failed with this answer
FetchAnswered == (TopLevel \/ op = "get_metadata") /\ fetched.status # "NotFetched"

\* C28: the metadata fetcher answers a missing record with the
\* missing-account kind, undecodable bytes with the decode-failure kind and a
\* chain-access error with the transport kind carrying the collaborator's
\* kind; the three are distinct.
C28_FetchErrorKinds ==
    FetchAnswered =>
        /\ fetched.status = "AccountNotFound" =>
              result.state = "err" /\ result.err = "MissingAccount"
        /\ (fetched.status = "Ok" /\ ~fetched.valid) =>
              result.state = "err" /\ result.err = "DecodeMetadataFailed"
        /\ fetched.status = "Transport" =>
              /\ result.state = "err" /\ result.err = "ClientError"
              /\ result.kind = "Transport"

HandleInv ==
    pc = "asset" =>
        /\ args.metadata = metadata_pda(args.mint)
        /\ args.edition \in {None, edition_pda(args.mint)}
        /\ op = "Asset::new" => args.edition = None
HandleStep ==
    (pc = "asset" /\ pc' = "asset") =>
        /\ args'.mint = args.mint
        /\ args'.metadata = args.metadata
        /\ op' = "add_edition" => args'.edition = edition_pda(args.mint)
        /\ op' # "add_edition" => args' = args

\* C29: over any sequence of new, add_edition, get_token_record and
\* get_metadata the handle keeps its mint and metadata = metadata_pda(mint);
\* its edition is unset until the first add_edition and edition_pda(mint)
\* from then on; get_token_record and get_metadata leave it unchanged.
C29_AssetHandle == []HandleInv /\ [][HandleStep]_vars

C29_Witness ==
    /\ pc = "asset" /\ attempts = 3 /\ op = "get_metadata"
    /\ calls = <<"getAccountInfo">>
    /\ args.edition = edition_pda(CollectionKey)
    /\ args.metadata = metadata_pda(CollectionKey)

\* C23: for every valid key=value input s, from_str(s) succeeds and
\* from_str(s).to_string() = s, also when the value holds a '=' or is a
\* number written with leading zeros.
C23_RoundTrip ==
    /\ op = "MetadataValue::from_str" => result.state = "ok"
    /\ op = "MetadataValue::to_string" => result.val = args.s

====
